---- MODULE Spec2Model ----
(***************************************************************************)
(* A model of the TikZJax plugin (src/main.ts): the source normaliser and  *)
(* preamble merger (tidyTikzSource), the preamble resolver                 *)
(* (findPreambleFile), the diagnostic classifier (showBufferedLogs) and    *)
(* the debounced log buffer (checkForTikzError, clearLogBuffer).           *)
(*                                                                         *)
(* Text is modelled character by character: a string is a sequence of      *)
(* one-character strings.                                                  *)
(***************************************************************************)
EXTENDS Integers, Sequences, FiniteSets, TLC

VARIABLES
    \* tidyTikzSource applied to one input (specification SpecTidy)
    tidyPc,          \* "start" | "tidied" | "renormalized"
    tikzSource,      \* the raw block text
    preamble,        \* the preamble text handed to tidyTikzSource
    sourceComplete,  \* tidyTikzSource(tikzSource, preamble)
    renormalized,    \* tidyTikzSource(sourceComplete), no preamble
    \* the plugin's fields (src/main.ts 13-15) and the reports in the document
    tikzLogBuffer,       \* this.tikzLogBuffer
    tikzLogTimer,        \* this.tikzLogTimer: NullTimer or a timer handle
    currentTikzElement,  \* this.currentTikzElement: "null" or a block element
    errorDisplays,       \* per element, its .tikz-error-display children
    \* one run of showBufferedLogs, line by line (specification SpecClassifier)
    clsPc,             \* "entry" | "loop" | "after" | "returned"
    clsIndex,          \* lines of the buffer the for loop has taken
    state,             \* LogState
    errorPhase,        \* "null" | "preamble" | "document"
    filteredMessages,  \* the retained lines
    clsInput,          \* the buffer the run started with
    clsTrace,          \* <<state, errorPhase>> at loop entry and after each line
    \* one call of findPreambleFile (specification SpecResolver)
    resPc,        \* "start" | "loop" | "returned" | "rejected"
    sourcePath,   \* the argument
    vault,        \* the entries of the vault
    currentDir,
    searchCount,
    resContent,   \* the string returned
    queried,      \* the paths looked up, in order
    \* the plugin in its host (specification Spec)
    pluginPhase,           \* "constructed" | "loaded" | "unloaded"
    consoleLog,            \* console.log: "native" | "intercepted"
    consoleError,          \* console.error: "native" | "intercepted"
    originalConsoleLog,    \* this.originalConsoleLog: "undefined" | "native"
    originalConsoleError,  \* this.originalConsoleError
    layoutReady,           \* the layout-ready callback has run
    openWindows,           \* the windows of the workspace
    tikzjaxScripts,        \* the windows whose document has the #tikzjax script
    tikzModes,             \* the "Tikz" entries of CodeMirror.modeInfo
    timeouts,              \* the host's pending timers, [id, remaining]
    nextTimer,             \* the handle setTimeout returns next
    blockPc,               \* per block, where its processor callback is
    blockScript,           \* per block, the texts of the text/tikz scripts in it
    renders,               \* processor callbacks started
    \* the burst of checkForTikzError calls in progress (history)
    burstLive,      \* a target was set at the last call, no render start since
    burstFeeds,     \* calls of the burst
    burstSpan,      \* time from its first call to its last call
    sinceFeed,      \* time since its last call
    burstFlushes,   \* runs of showBufferedLogs since its first call
    burstFlushGap,  \* at the last such run, the time since the last call
    burstMissedGap, \* the last call ended a burst no flush had run for: the
                    \* time between that burst's last call and this call
    \* the lines of tikzLogBuffer (history)
    bufferTags      \* per line, what wrote it and how many processor
                    \* callbacks had started when it was fed

tidyVars == <<tidyPc, tikzSource, preamble, sourceComplete, renormalized>>

pluginVars == <<tikzLogBuffer, tikzLogTimer, currentTikzElement, errorDisplays>>

clsVars == <<clsPc, clsIndex, state, errorPhase, filteredMessages, clsInput, clsTrace>>

resVars == <<resPc, sourcePath, vault, currentDir, searchCount, resContent, queried>>

hostVars ==
    <<pluginPhase, consoleLog, consoleError, originalConsoleLog, originalConsoleError,
      layoutReady, openWindows, tikzjaxScripts, tikzModes, timeouts, nextTimer, blockPc, blockScript, renders>>

burstVars ==
    <<burstLive, burstFeeds, burstSpan, sinceFeed, burstFlushes, burstFlushGap,
      burstMissedGap, bufferTags>>

vars == <<tidyVars, pluginVars, clsVars, resVars, hostVars, burstVars>>

(***************************************************************************)
(* Bounds.                                                                 *)
(***************************************************************************)
\* Number of text pieces an input source is put together from.
MaxSrcPieces == 3
\* Number of lines in a buffer handed to showBufferedLogs.
MaxBufLen == 3
\* Depth of the document's directory below the vault root.
MaxDepth == 10
\* Calls of checkForTikzError in a run.
MaxFeeds == 2
\* Calls of the code block processor in a run.
MaxRenders == 2

(***************************************************************************)
(* Strings as character sequences.                                         *)
(***************************************************************************)
NL == "\n"

\* "&nbsp;"
Nbsp == <<"&", "n", "b", "s", "p", ";">>

\* "\\begin{document}"
BeginDocument ==
    <<"\\", "b", "e", "g", "i", "n", "{", "d", "o", "c", "u", "m", "e", "n", "t", "}">>

\* The characters String.prototype.trim strips.
IsWhiteSpace(c) == c \in {" ", "\t", "\n", "\r"}

\* s.startsWith(p, i - 1): p occurs in s at (1-based) position i.
OccursAt(s, p, i) ==
    /\ i + Len(p) - 1 <= Len(s)
    /\ \A k \in 1..Len(p) : s[i + k - 1] = p[k]

\* s.includes(p)
Includes(s, p) == \E i \in 1..(Len(s) + 1) : OccursAt(s, p, i)

RECURSIVE ReplaceAllFrom(_, _, _)
ReplaceAllFrom(s, p, i) ==
    IF i > Len(s) THEN <<>>
    ELSE IF OccursAt(s, p, i) THEN ReplaceAllFrom(s, p, i + Len(p))
    ELSE <<s[i]>> \o ReplaceAllFrom(s, p, i + 1)

\* s.replaceAll(p, ""): the occurrences of p found in one left-to-right scan
\* of s are removed; the result is not scanned again.
ReplaceAll(s, p) == ReplaceAllFrom(s, p, 1)

RECURSIVE TrimStart(_)
TrimStart(s) ==
    IF s # <<>> /\ IsWhiteSpace(Head(s)) THEN TrimStart(Tail(s)) ELSE s

RECURSIVE TrimEnd(_)
TrimEnd(s) ==
    IF s # <<>> /\ IsWhiteSpace(s[Len(s)])
    THEN TrimEnd(SubSeq(s, 1, Len(s) - 1)) ELSE s

\* s.trim()
Trim(s) == TrimEnd(TrimStart(s))

RECURSIVE SplitFrom(_, _, _)
SplitFrom(s, i, cur) ==
    IF i > Len(s) THEN <<cur>>
    ELSE IF s[i] = NL THEN <<cur>> \o SplitFrom(s, i + 1, <<>>)
    ELSE SplitFrom(s, i + 1, Append(cur, s[i]))

\* s.split("\n"): one more line than there are newlines ("" gives [""]).
Split(s) == SplitFrom(s, 1, <<>>)

RECURSIVE Join(_)
\* lines.join("\n")
Join(lines) ==
    IF lines = <<>> THEN <<>>
    ELSE IF Len(lines) = 1 THEN lines[1]
    ELSE lines[1] \o <<NL>> \o Join(Tail(lines))

\* lines.map(line => line.trim())
MapTrim(lines) == [i \in 1..Len(lines) |-> Trim(lines[i])]

RECURSIVE FilterNonEmpty(_)
\* lines.filter(line => line)
FilterNonEmpty(lines) ==
    IF lines = <<>> THEN <<>>
    ELSE IF Head(lines) # <<>> THEN <<Head(lines)>> \o FilterNonEmpty(Tail(lines))
    ELSE FilterNonEmpty(Tail(lines))

\* lines.findIndex(line => line.includes('\\begin{document}')): 0-based, -1
\* when no line has it.
FindDocumentIndex(lines) ==
    IF \E i \in 1..Len(lines) : Includes(lines[i], BeginDocument)
    THEN (CHOOSE i \in 1..Len(lines) :
             /\ Includes(lines[i], BeginDocument)
             /\ \A j \in 1..(i - 1) : ~Includes(lines[j], BeginDocument)) - 1
    ELSE -1

\* lines.splice(index, 0, ...items), index 0-based
Splice(lines, index, items) ==
    SubSeq(lines, 1, index) \o items \o SubSeq(lines, index + 1, Len(lines))

(***************************************************************************)
(* tidyTikzSource (src/main.ts 192-223).                                   *)
(***************************************************************************)
\* Lines 196-204: remove "&nbsp;", split, trim every line, drop empty lines.
NormalizedLines(src) == FilterNonEmpty(MapTrim(Split(ReplaceAll(src, Nbsp))))

\* Line 207: if (preamble.trim())
HasPreamble(pre) == Trim(pre) # <<>>

\* Line 208
PreambleLines(pre) == FilterNonEmpty(MapTrim(Split(Trim(pre))))

\* The preamble spliced in after the \begin{document} line, not before it.
InsertPreamble_AfterMarker(lines, preambleLines) ==
    LET documentIndex == FindDocumentIndex(lines)
    IN  IF documentIndex # -1
        THEN Splice(lines, documentIndex + 1, preambleLines)
        ELSE preambleLines \o lines

\* Lines 211-219: the preamble lines go before the first line that has
\* \begin{document}, or before all lines when none has it.
InsertPreamble(lines, preambleLines) ==
    LET documentIndex == FindDocumentIndex(lines)
    IN  IF documentIndex # -1
        THEN Splice(lines, documentIndex, preambleLines)
        ELSE preambleLines \o lines

\* The preamble taken as it is: neither trimmed nor cleared of empty lines.
MergedLines_RawPreamble(src, pre) ==
    LET lines == NormalizedLines(src)
    IN  IF pre # <<>> THEN InsertPreamble(lines, Split(pre)) ELSE lines

MergedLines(src, pre) ==
    LET lines == NormalizedLines(src)
    IN  IF HasPreamble(pre) THEN InsertPreamble(lines, PreambleLines(pre)) ELSE lines

TidyTikzSource(src, pre) == Join(MergedLines(src, pre))

(***************************************************************************)
(* Inputs of tidyTikzSource: every concatenation of at most MaxSrcPieces   *)
(* pieces, and a fixed set of preambles.                                   *)
(***************************************************************************)
SrcPieces ==
    { Nbsp, <<"&", "n", "b">>, <<"s", "p", ";">>, <<" ">>, <<NL>>, <<"x">>,
      <<"a", NL>>, <<NL, "z">>, BeginDocument }

RECURSIVE Concat(_)
Concat(pieces) == IF pieces = <<>> THEN <<>> ELSE Head(pieces) \o Concat(Tail(pieces))

PieceSeqs(n) == UNION { [1..k -> SrcPieces] : k \in 0..n }

Sources == { Concat(ps) : ps \in PieceSeqs(MaxSrcPieces) }

Preambles ==
    { <<>>,
      <<" ">>,
      <<" ", NL, "\t", NL>>,
      <<"p">>,
      <<"p", NL, "q">>,
      <<" ", "p", " ", NL, NL, "\t", "q", " ", NL>>,
      <<"p", NL>> \o BeginDocument }

TidyIdle ==
    /\ tidyPc = "idle"
    /\ tikzSource = <<>>
    /\ preamble = <<>>
    /\ sourceComplete = <<>>
    /\ renormalized = <<>>

TidyInit ==
    /\ tidyPc = "start"
    /\ tikzSource \in Sources
    /\ preamble \in Preambles
    /\ sourceComplete = <<>>
    /\ renormalized = <<>>

\* const sourceComplete = this.tidyTikzSource(source, preamble)
Tidy ==
    /\ tidyPc = "start"
    /\ sourceComplete' = TidyTikzSource(tikzSource, preamble)
    /\ tidyPc' = "tidied"
    /\ UNCHANGED <<tikzSource, preamble, renormalized, pluginVars, clsVars, resVars,
                 hostVars, burstVars>>

\* tidyTikzSource applied again, to its own result and with no preamble
Renormalize ==
    /\ tidyPc = "tidied"
    /\ renormalized' = TidyTikzSource(sourceComplete, <<>>)
    /\ tidyPc' = "renormalized"
    /\ UNCHANGED <<tikzSource, preamble, sourceComplete, pluginVars, clsVars, resVars,
                 hostVars, burstVars>>

TidyNext == Tidy \/ Renormalize

(***************************************************************************)
(* showBufferedLogs (src/main.ts 327-435): the patterns.                   *)
(***************************************************************************)
Letters ==
    { "a", "b", "c", "d", "e", "f", "g", "h", "i", "j", "k", "l", "m", "n", "o",
      "p", "q", "r", "s", "t", "u", "v", "w", "x", "y", "z",
      "A", "B", "C", "D", "E", "F", "G", "H", "I", "J", "K", "L", "M", "N", "O",
      "P", "Q", "R", "S", "T", "U", "V", "W", "X", "Y", "Z" }

Digits == { "0", "1", "2", "3", "4", "5", "6", "7", "8", "9" }

\* \w
IsWordChar(c) == c \in Letters \cup Digits \cup {"_"}

\* [\s\(\)\"]
IsOpenerChar(c) == IsWhiteSpace(c) \/ c \in {"(", ")", "\""}

\* [\w\-\.]
IsFileChar(c) == IsWordChar(c) \/ c \in {"-", "."}

\* s.startsWith(p), a pattern anchored with ^
StartsWith(s, p) == OccursAt(s, p, 1)

DotTex == <<".", "t", "e", "x">>
DotSty == <<".", "s", "t", "y">>
DotCodeTex == <<".", "c", "o", "d", "e", ".", "t", "e", "x">>

\* Line 343: /^[\s\(\)\"]*[\w\-\.]+\.(?:tex|sty|code\.tex)/ : some opener
\* characters, then one or more file-name characters, then one of the
\* extensions.
MatchesFileLoad(t) ==
    \E p \in 0..Len(t) : \E i \in (p + 2)..Len(t) :
        /\ \A k \in 1..p : IsOpenerChar(t[k])
        /\ \A k \in (p + 1)..(i - 1) : IsFileChar(t[k])
        /\ \/ OccursAt(t, DotTex, i)
           \/ OccursAt(t, DotSty, i)
           \/ OccursAt(t, DotCodeTex, i)

\* Line 343: /^!/
StartsWithBang(t) == StartsWith(t, <<"!">>)

ThisIsETeX == <<"T", "h", "i", "s", " ", "i", "s", " ", "e", "-", "T", "e", "X">>
LaTeX2e == <<"L", "a", "T", "e", "X", "2", "e">>
EnteringExtendedMode ==
    <<"*", "*", "e", "n", "t", "e", "r", "i", "n", "g", " ", "e", "x", "t", "e",
      "n", "d", "e", "d", " ", "m", "o", "d", "e">>
OpenInputTex == <<"(", "i", "n", "p", "u", "t", ".", "t", "e", "x">>
ForAdditionalInformation ==
    <<"F", "o", "r", " ", "a", "d", "d", "i", "t", "i", "o", "n", "a", "l", " ",
      "i", "n", "f", "o", "r", "m", "a", "t", "i", "o", "n">>

\* Line 345: /^This is e-TeX|^LaTeX2e|^\*\*entering extended mode|^\(input\.tex$|^For additional information/
MatchesBanner(t) ==
    \/ StartsWith(t, ThisIsETeX)
    \/ StartsWith(t, LaTeX2e)
    \/ StartsWith(t, EnteringExtendedMode)
    \/ t = OpenInputTex
    \/ StartsWith(t, ForAdditionalInformation)

\* Line 347: /^\s*\.{3,}\s*$|^\s*$/
MatchesBlankOrDots(t) ==
    \/ \A k \in 1..Len(t) : IsWhiteSpace(t[k])
    \/ \E a \in 0..Len(t) : \E b \in (a + 3)..Len(t) :
          /\ \A k \in 1..a : IsWhiteSpace(t[k])
          /\ \A k \in (a + 1)..b : t[k] = "."
          /\ \A k \in (b + 1)..Len(t) : IsWhiteSpace(t[k])

\* The file-load pattern without its sty alternative.
ShouldSkip_NoSty(t) ==
    \/ /\ \E p \in 0..Len(t) : \E i \in (p + 2)..Len(t) :
              /\ \A k \in 1..p : IsOpenerChar(t[k])
              /\ \A k \in (p + 1)..(i - 1) : IsFileChar(t[k])
              /\ OccursAt(t, DotTex, i)
       /\ ~StartsWithBang(t)
    \/ MatchesBanner(t)
    \/ MatchesBlankOrDots(t)

\* Lines 341-348: shouldSkip
ShouldSkip(t) ==
    \/ (MatchesFileLoad(t) /\ ~StartsWithBang(t))
    \/ MatchesBanner(t)
    \/ MatchesBlankOrDots(t)

NoFileInputAux ==
    <<"N", "o", " ", "f", "i", "l", "e", " ", "i", "n", "p", "u", "t", ".", "a",
      "u", "x", ".">>
AbdColon == <<"A", "B", "D", ":">>
QuotedInputAux ==
    <<"(", "\"", "i", "n", "p", "u", "t", ".", "a", "u", "x", "\"", ")">>

\* Lines 355-359 and 369-373: isNormalDocument
IsNormalDocument(t) ==
    \/ StartsWith(t, NoFileInputAux)
    \/ StartsWith(t, AbdColon)
    \/ StartsWith(t, QuotedInputAux)

(***************************************************************************)
(* showBufferedLogs: one iteration of the for loop (lines 336-386), on the *)
(* locals c = [state, errorPhase, filteredMessages].                       *)
(***************************************************************************)
NormalStates == {"preamble_normal", "document_normal"}
ErrorStates == {"preamble_error", "document_error"}

\* Lines 332-334
ClassifierStart ==
    [state |-> "preamble_normal", errorPhase |-> "null", filteredMessages |-> <<>>]

\* Lines 383-385
PushIfError(c, message) ==
    IF c.state \in ErrorStates
    THEN [c EXCEPT !.filteredMessages = Append(@, message)]
    ELSE c

\* In an error state a document-entry marker sends the state back to
\* document_normal.
ClassifyLine_LeavesError(c, message) ==
    LET trimmed == Trim(message)
    IN  IF c.state \in ErrorStates /\ IsNormalDocument(trimmed)
        THEN [c EXCEPT !.state = "document_normal"]
        ELSE IF c.state = "preamble_normal"
        THEN IF ShouldSkip(trimmed) THEN c
             ELSE IF IsNormalDocument(trimmed)
             THEN [c EXCEPT !.state = "document_normal"]
             ELSE PushIfError(
                    [c EXCEPT !.state = "preamble_error",
                              !.errorPhase = IF @ = "null" THEN "preamble" ELSE @],
                    message)
        ELSE IF c.state = "document_normal"
        THEN IF IsNormalDocument(trimmed) THEN c
             ELSE PushIfError(
                    [c EXCEPT !.state = "document_error",
                              !.errorPhase = IF @ = "null" THEN "document" ELSE @],
                    message)
        ELSE PushIfError(c, message)

\* In an error state a document-entry marker sets errorPhase to 'document'.
ClassifyLine_PhaseFollowsMarker(c, message) ==
    LET trimmed == Trim(message)
    IN  IF c.state = "preamble_normal"
        THEN IF ShouldSkip(trimmed) THEN c
             ELSE IF IsNormalDocument(trimmed)
             THEN [c EXCEPT !.state = "document_normal"]
             ELSE PushIfError(
                    [c EXCEPT !.state = "preamble_error",
                              !.errorPhase = IF @ = "null" THEN "preamble" ELSE @],
                    message)
        ELSE IF c.state = "document_normal"
        THEN IF IsNormalDocument(trimmed) THEN c
             ELSE PushIfError(
                    [c EXCEPT !.state = "document_error",
                              !.errorPhase = IF @ = "null" THEN "document" ELSE @],
                    message)
        ELSE PushIfError(
               [c EXCEPT !.errorPhase =
                    IF IsNormalDocument(trimmed) THEN "document" ELSE @],
               message)

\* The trimmed line is retained, not the message.
ClassifyLine_PushesTrimmed(c, message) ==
    LET trimmed == Trim(message)
    IN  IF c.state = "preamble_normal"
        THEN IF ShouldSkip(trimmed) THEN c
             ELSE IF IsNormalDocument(trimmed)
             THEN [c EXCEPT !.state = "document_normal"]
             ELSE PushIfError(
                    [c EXCEPT !.state = "preamble_error",
                              !.errorPhase = IF @ = "null" THEN "preamble" ELSE @],
                    trimmed)
        ELSE IF c.state = "document_normal"
        THEN IF IsNormalDocument(trimmed) THEN c
             ELSE PushIfError(
                    [c EXCEPT !.state = "document_error",
                              !.errorPhase = IF @ = "null" THEN "document" ELSE @],
                    trimmed)
        ELSE PushIfError(c, trimmed)

\* The move into document_error leaves errorPhase as it is.
ClassifyLine_DocumentErrorNoPhase(c, message) ==
    LET trimmed == Trim(message)
    IN  IF c.state = "preamble_normal"
        THEN IF ShouldSkip(trimmed) THEN c
             ELSE IF IsNormalDocument(trimmed)
             THEN [c EXCEPT !.state = "document_normal"]
             ELSE PushIfError(
                    [c EXCEPT !.state = "preamble_error",
                              !.errorPhase = IF @ = "null" THEN "preamble" ELSE @],
                    message)
        ELSE IF c.state = "document_normal"
        THEN IF IsNormalDocument(trimmed) THEN c
             ELSE PushIfError([c EXCEPT !.state = "document_error"], message)
        ELSE PushIfError(c, message)

\* Lines 337-385
ClassifyLine(c, message) ==
    LET trimmed == Trim(message)
    IN  IF c.state = "preamble_normal"
        THEN IF ShouldSkip(trimmed) THEN c
             ELSE IF IsNormalDocument(trimmed)
             THEN [c EXCEPT !.state = "document_normal"]
             ELSE PushIfError(
                    [c EXCEPT !.state = "preamble_error",
                              !.errorPhase = IF @ = "null" THEN "preamble" ELSE @],
                    message)
        ELSE IF c.state = "document_normal"
        THEN IF IsNormalDocument(trimmed) THEN c
             ELSE PushIfError(
                    [c EXCEPT !.state = "document_error",
                              !.errorPhase = IF @ = "null" THEN "document" ELSE @],
                    message)
        ELSE PushIfError(c, message)

RECURSIVE ClassifyFrom(_, _, _)
ClassifyFrom(c, buffer, i) ==
    IF i > Len(buffer) THEN c
    ELSE ClassifyFrom(ClassifyLine(c, buffer[i]), buffer, i + 1)

\* Lines 332-386: the locals after the whole for loop.
ClassifyBuffer(buffer) == ClassifyFrom(ClassifierStart, buffer, 1)

TitlePreamble == "LaTeX Preamble Error (before \\begin{document})"
TitleDocument == "LaTeX Document Error (after \\begin{document})"
TitleLog == "TikZJax Log"

\* Lines 392-418: the error display built from the locals.
ErrorDisplay(c) ==
    [title |-> IF c.errorPhase = "preamble" THEN TitlePreamble
               ELSE IF c.errorPhase = "document" THEN TitleDocument
               ELSE TitleLog,
     text |-> Join(c.filteredMessages)]

(***************************************************************************)
(* The document: block elements and the error displays in them.            *)
(***************************************************************************)
Blocks == {"A", "B"}

\* Line 14: tikzLogTimer = null; the handles of timers are 1, 2, ...
NullTimer == 0

NoDisplays == [b \in Blocks |-> <<>>]

\* Lines 13-15: the fields of a new plugin object.
PluginFieldsInit ==
    /\ tikzLogBuffer = <<>>
    /\ tikzLogTimer = NullTimer
    /\ currentTikzElement = "null"
    /\ errorDisplays = NoDisplays

(***************************************************************************)
(* Log lines.                                                              *)
(***************************************************************************)
LineBanner ==
    <<"T", "h", "i", "s", " ", "i", "s", " ", "e", "-", "T", "e", "X", ",", " ",
      "V", "e", "r", "s", "i", "o", "n", " ", "3", ".", "1", "4">>
LineStyle == <<"m", "y", "s", "t", "y", "l", "e", ".", "s", "t", "y">>
LineCodeTex ==
    <<" ", "(", "t", "i", "k", "z", ".", "c", "o", "d", "e", ".", "t", "e", "x">>
LineBlank == <<>>
LineDots == <<" ", ".", ".", ".", " ">>
LineNoAux == NoFileInputAux
LineAbd ==
    <<"A", "B", "D", ":", " ", "E", "v", "e", "r", "y", "S", "h", "i", "p", "o",
      "u", "t">>
LineUndefined ==
    <<"!", " ", "U", "n", "d", "e", "f", "i", "n", "e", "d", " ", "c", "o", "n",
      "t", "r", "o", "l", " ", "s", "e", "q", "u", "e", "n", "c", "e", ".">>
LineContext == <<"l", ".", "1", "2", " ", "\\", "f", "o", "o">>
LineMissing ==
    <<" ", " ", "!", " ", "M", "i", "s", "s", "i", "n", "g", " ", "$", " ", "i",
      "n", "s", "e", "r", "t", "e", "d", ".", " ">>

\* File-load echoes, a version banner, a blank line and a dot-fill line.
BenignLines == {LineBanner, LineStyle, LineCodeTex, LineBlank, LineDots}

\* Document-entry markers.
MarkerLines == {LineNoAux, LineAbd}

LogLines ==
    BenignLines \cup MarkerLines \cup {LineUndefined, LineContext, LineMissing}

Buffers == UNION { [1..n -> LogLines] : n \in 0..MaxBufLen }

(***************************************************************************)
(* SpecClassifier: one run of showBufferedLogs on a buffer, a line a step. *)
(***************************************************************************)
ClsIdle ==
    /\ clsPc = "idle"
    /\ clsIndex = 0
    /\ state = "preamble_normal"
    /\ errorPhase = "null"
    /\ filteredMessages = <<>>
    /\ clsInput = <<>>
    /\ clsTrace = <<>>

ClsInit ==
    /\ tikzLogBuffer \in Buffers
    /\ tikzLogTimer = NullTimer
    /\ currentTikzElement \in {"null", "A"}
    /\ errorDisplays = NoDisplays
    /\ clsPc = "entry"
    /\ clsIndex = 0
    /\ state = "preamble_normal"
    /\ errorPhase = "null"
    /\ filteredMessages = <<>>
    /\ clsInput = tikzLogBuffer
    /\ clsTrace = <<>>

\* Line 328: nothing to do for an empty buffer or without a target.
ClsReturnEarly ==
    /\ clsPc = "entry"
    /\ (Len(tikzLogBuffer) = 0 \/ currentTikzElement = "null")
    /\ clsPc' = "returned"
    /\ UNCHANGED <<clsIndex, state, errorPhase, filteredMessages, clsInput, clsTrace>>
    /\ UNCHANGED <<pluginVars, tidyVars, resVars, hostVars, burstVars>>

\* Lines 332-334: the locals are set up.
ClsEnterLoop ==
    /\ clsPc = "entry"
    /\ ~(Len(tikzLogBuffer) = 0 \/ currentTikzElement = "null")
    /\ state' = ClassifierStart.state
    /\ errorPhase' = ClassifierStart.errorPhase
    /\ filteredMessages' = ClassifierStart.filteredMessages
    /\ clsTrace' = <<<<ClassifierStart.state, ClassifierStart.errorPhase>>>>
    /\ clsPc' = "loop"
    /\ UNCHANGED <<clsIndex, clsInput>>
    /\ UNCHANGED <<pluginVars, tidyVars, resVars, hostVars, burstVars>>

\* Lines 336-386: one iteration.
ClsTakeLine ==
    /\ clsPc = "loop"
    /\ clsIndex < Len(tikzLogBuffer)
    /\ LET c == ClassifyLine(
                  [state |-> state, errorPhase |-> errorPhase,
                   filteredMessages |-> filteredMessages],
                  tikzLogBuffer[clsIndex + 1])
       IN  /\ state' = c.state
           /\ errorPhase' = c.errorPhase
           /\ filteredMessages' = c.filteredMessages
           /\ clsTrace' = Append(clsTrace, <<c.state, c.errorPhase>>)
    /\ clsIndex' = clsIndex + 1
    /\ UNCHANGED <<clsPc, clsInput>>
    /\ UNCHANGED <<pluginVars, tidyVars, resVars, hostVars, burstVars>>

\* Lines 388-389: no retained line, no display; the buffer stays as it is.
ClsReturnSilent ==
    /\ clsPc = "loop"
    /\ clsIndex = Len(tikzLogBuffer)
    /\ Len(filteredMessages) = 0
    /\ clsPc' = "returned"
    /\ UNCHANGED <<clsIndex, state, errorPhase, filteredMessages, clsInput, clsTrace>>
    /\ UNCHANGED <<pluginVars, tidyVars, resVars, hostVars, burstVars>>

\* Lines 392-434: the display is added to the target, the buffer cleared.
ClsShowDisplay ==
    /\ clsPc = "loop"
    /\ clsIndex = Len(tikzLogBuffer)
    /\ Len(filteredMessages) # 0
    /\ errorDisplays' =
         [errorDisplays EXCEPT ![currentTikzElement] =
            Append(@, ErrorDisplay([state |-> state, errorPhase |-> errorPhase,
                                    filteredMessages |-> filteredMessages]))]
    /\ tikzLogBuffer' = <<>>
    /\ clsPc' = "returned"
    /\ UNCHANGED <<clsIndex, state, errorPhase, filteredMessages, clsInput, clsTrace>>
    /\ UNCHANGED <<tikzLogTimer, currentTikzElement, tidyVars, resVars, hostVars, burstVars>>

ClsNext ==
    \/ ClsReturnEarly
    \/ ClsEnterLoop
    \/ ClsTakeLine
    \/ ClsReturnSilent
    \/ ClsShowDisplay

(***************************************************************************)
(* findPreambleFile (src/main.ts 142-190). A path is a sequence of         *)
(* segment names and "/" separators; every directory on the way from the   *)
(* root to the document is named "a" and the document is "note.md".        *)
(***************************************************************************)
Slash == "/"

\* Line 151
preambleFilenames == <<".tikz-preamble.tex", ".tikz-preamble", "tikz-preamble.tex">>

\* Line 156: while (searchCount < 10)
SafetyLimit == 10

\* s.includes('/')
IncludesSlash(s) == \E i \in 1..Len(s) : s[i] = Slash

\* s.indexOf('/'), 0-based, of a path that has a slash
IndexOfSlash(s) ==
    (CHOOSE i \in 1..Len(s) : s[i] = Slash /\ \A j \in 1..(i - 1) : s[j] # Slash) - 1

\* s.lastIndexOf('/'), 0-based, of a path that has a slash
LastIndexOfSlash(s) ==
    (CHOOSE i \in 1..Len(s) : s[i] = Slash /\ \A j \in (i + 1)..Len(s) : s[j] # Slash) - 1

\* s.substring(0, end)
SubstringTo(s, end) == SubSeq(s, 1, end)

\* The directory cut at the first slash, not the last.
ParentOf_FirstSlash(path) ==
    IF IncludesSlash(path) THEN SubstringTo(path, IndexOfSlash(path)) ELSE <<>>

\* Lines 148 and 180-186: the path up to its last slash, '' without one.
ParentOf(path) ==
    IF IncludesSlash(path) THEN SubstringTo(path, LastIndexOfSlash(path)) ELSE <<>>

\* Line 160
PreamblePath(dir, filename) ==
    IF dir # <<>> THEN dir \o <<Slash, filename>> ELSE <<filename>>

\* this.app.vault.getAbstractFileByPath(path) in vault v, a set of
\* [path, kind] entries: "TFile" (a file cachedRead can read), "Unreadable"
\* (a TFile whose cachedRead rejects), "TFolder", "Throws" (a path whose
\* lookup throws), or "null" for no entry.
GetAbstractFileByPath(v, path) ==
    IF \E e \in v : e.path = path
    THEN (CHOOSE e \in v : e.path = path).kind
    ELSE "null"

\* this.app.vault.cachedRead(file): every file holds a comment line naming it.
CachedRead(path) == <<"%", " ">> \o path

\* A throw of the lookup or of the read is not caught.
CandidateOutcome_NoCatch(kind) ==
    IF kind = "TFile" THEN "return"
    ELSE IF kind \in {"Unreadable", "Throws"} THEN "throw"
    ELSE "miss"

\* Lines 162-171: what the try statement does with one candidate. A TFile
\* that is read is returned; a lookup that gives no TFile is a miss; a
\* lookup or a read that throws is caught at line 169, a miss as well.
CandidateOutcome(kind) ==
    IF kind = "TFile" THEN "return" ELSE "miss"

\* The candidates of a directory tried from the last name to the first.
TryFilenames_Reversed(v, dir, i) ==
    LET Try[j \in 0..3] ==
            IF j = 0 THEN [found |-> FALSE, threw |-> FALSE, content |-> <<>>,
                           lookups |-> <<>>]
            ELSE LET path == PreamblePath(dir, preambleFilenames[j])
                 IN  IF GetAbstractFileByPath(v, path) = "TFile"
                     THEN [found |-> TRUE, threw |-> FALSE,
                           content |-> CachedRead(path), lookups |-> <<path>>]
                     ELSE [Try[j - 1] EXCEPT !.lookups = <<path>> \o @]
    IN  Try[3]

RECURSIVE TryFilenames(_, _, _)
\* Lines 159-172: the candidates of one directory from the i-th on, in
\* order; the first that is a TFile and can be read is returned, a candidate
\* that is a miss is passed over, and an exception that leaves the try
\* statement would leave the function.
TryFilenames(v, dir, i) ==
    IF i > Len(preambleFilenames)
    THEN [found |-> FALSE, threw |-> FALSE, content |-> <<>>, lookups |-> <<>>]
    ELSE LET path == PreamblePath(dir, preambleFilenames[i])
             outcome == CandidateOutcome(GetAbstractFileByPath(v, path))
         IN  IF outcome = "return"
             THEN [found |-> TRUE, threw |-> FALSE, content |-> CachedRead(path),
                   lookups |-> <<path>>]
             ELSE IF outcome = "throw"
             THEN [found |-> FALSE, threw |-> TRUE, content |-> <<>>,
                   lookups |-> <<path>>]
             ELSE LET rest == TryFilenames(v, dir, i + 1)
                  IN  [rest EXCEPT !.lookups = <<path>> \o @]

(***************************************************************************)
(* Vaults: the directory chain of the document, of which at most two       *)
(* directories hold candidate entries.                                     *)
(***************************************************************************)
\* The directory l levels below the root on the document's chain.
RECURSIVE DirAt(_)
DirAt(l) ==
    IF l = 0 THEN <<>>
    ELSE IF l = 1 THEN <<"a">>
    ELSE DirAt(l - 1) \o <<Slash, "a">>

\* The path of the document in the directory at level l.
DocumentIn(l) == PreamblePath(DirAt(l), "note.md")

\* What a directory holds under the three candidate names.
Layouts ==
    { <<"null", "null", "null">>,
      <<"TFile", "null", "null">>,
      <<"null", "null", "TFile">>,
      <<"TFile", "TFile", "TFile">>,
      <<"null", "TFile", "TFile">>,
      <<"TFolder", "TFile", "null">>,
      <<"Unreadable", "null", "TFile">>,
      <<"Unreadable", "null", "null">>,
      <<"null", "Throws", "TFile">>,
      <<"null", "TFolder", "null">> }

EntriesAt(l, layout) ==
    { [path |-> PreamblePath(DirAt(l), preambleFilenames[i]), kind |-> layout[i]] :
        i \in { j \in 1..3 : layout[j] # "null" } }

(***************************************************************************)
(* SpecResolver: one call of findPreambleFile, a directory a step.         *)
(***************************************************************************)
ResIdle ==
    /\ resPc = "idle"
    /\ sourcePath = <<>>
    /\ vault = {}
    /\ currentDir = <<>>
    /\ searchCount = 0
    /\ resContent = <<>>
    /\ queried = <<>>

ResInit ==
    /\ resPc = "start"
    /\ \E d \in 0..MaxDepth : \E l1 \in 0..d : \E l2 \in l1..d :
         \E y1 \in Layouts : \E y2 \in Layouts :
            /\ (l1 = l2 => y2 = y1)
            /\ sourcePath \in {DocumentIn(d)} \cup (IF d = 0 THEN {<<>>} ELSE {})
            /\ vault = EntriesAt(l1, y1) \cup EntriesAt(l2, y2)
    /\ currentDir = <<>>
    /\ searchCount = 0
    /\ resContent = <<>>
    /\ queried = <<>>

\* Lines 143-145: no source path, no preamble.
ResNoPath ==
    /\ resPc = "start"
    /\ sourcePath = <<>>
    /\ resContent' = <<>>
    /\ resPc' = "returned"
    /\ UNCHANGED <<sourcePath, vault, currentDir, searchCount, queried>>
    /\ UNCHANGED <<tidyVars, pluginVars, clsVars, hostVars, burstVars>>

\* Lines 148-154
ResBegin ==
    /\ resPc = "start"
    /\ sourcePath # <<>>
    /\ currentDir' = ParentOf(sourcePath)
    /\ searchCount' = 0
    /\ resPc' = "loop"
    /\ UNCHANGED <<sourcePath, vault, resContent, queried>>
    /\ UNCHANGED <<tidyVars, pluginVars, clsVars, hostVars, burstVars>>

\* One iteration of the loop without the break at the root.
ResSearchDirectory_NoBreak ==
    /\ resPc = "loop"
    /\ searchCount < SafetyLimit
    /\ searchCount' = searchCount + 1
    /\ LET r == TryFilenames(vault, currentDir, 1)
       IN  /\ queried' = queried \o r.lookups
           /\ IF r.found
              THEN /\ resContent' = r.content
                   /\ resPc' = "returned"
                   /\ UNCHANGED currentDir
              ELSE /\ currentDir' = ParentOf(currentDir)
                   /\ UNCHANGED <<resContent, resPc>>
    /\ UNCHANGED <<sourcePath, vault>>
    /\ UNCHANGED <<tidyVars, pluginVars, clsVars, hostVars, burstVars>>

\* Lines 156-187: one iteration of the while loop. The promise of the
\* function is fulfilled by a return and rejected by an exception.
ResSearchDirectory ==
    /\ resPc = "loop"
    /\ searchCount < SafetyLimit
    /\ searchCount' = searchCount + 1
    /\ LET r == TryFilenames(vault, currentDir, 1)
       IN  /\ queried' = queried \o r.lookups
           /\ IF r.found
              THEN /\ resContent' = r.content
                   /\ resPc' = "returned"
                   /\ UNCHANGED currentDir
              ELSE IF r.threw
              THEN /\ resPc' = "rejected"
                   /\ UNCHANGED <<resContent, currentDir>>
              ELSE IF currentDir = <<>>
              THEN /\ resContent' = <<>>
                   /\ resPc' = "returned"
                   /\ UNCHANGED currentDir
              ELSE /\ currentDir' = ParentOf(currentDir)
                   /\ UNCHANGED <<resContent, resPc>>
    /\ UNCHANGED <<sourcePath, vault>>
    /\ UNCHANGED <<tidyVars, pluginVars, clsVars, hostVars, burstVars>>

\* Lines 156 and 189: the safety limit ends the loop.
ResLimitReached ==
    /\ resPc = "loop"
    /\ ~(searchCount < SafetyLimit)
    /\ resContent' = <<>>
    /\ resPc' = "returned"
    /\ UNCHANGED <<sourcePath, vault, currentDir, searchCount, queried>>
    /\ UNCHANGED <<tidyVars, pluginVars, clsVars, hostVars, burstVars>>

ResNext ==
    \/ ResNoPath
    \/ ResBegin
    \/ ResSearchDirectory
    \/ ResLimitReached

(***************************************************************************)
(* The plugin: onload and onunload, the tikz code block processor, the     *)
(* intercepted console and the debounce timer (specification Spec).        *)
(* Time is counted in milliseconds; a pending timer holds the time left    *)
(* until it is due.                                                        *)
(***************************************************************************)
\* Line 324: setTimeout(..., 1000)
QuietPeriod == 1000

\* The clock advances by half a quiet period at most.
TickMs == QuietPeriod \div 2

\* The burst record does not count time beyond this.
TimeCap == QuietPeriod + TickMs

Min(a, b) == IF a <= b THEN a ELSE b

\* The windows of getAllWindows: the main window and one pop-out window.
Windows == {"main", "popout"}

\* What the renderer and the rest of the application write to the console:
\* a line of the kind the classifier drops, the echo of a file load, and a
\* line of an error.
FeedEcho == <<"a", ".", "s", "t", "y">>
FeedError == <<"!", " ", "x">>
FeedLines == {FeedEcho, FeedError}

\* clearTimeout(handle): null and the handle of a timer that has fired
\* clear nothing.
ClearTimeout(pending, handle) == { t \in pending : t.id # handle }

\* setTimeout(callback, delay), the new timer's handle being id
SetTimeout(pending, id, delay) == pending \cup {[id |-> id, remaining |-> delay]}

\* The new timer is armed and the one armed before it is left pending.
PendingAfterFeed_NoClear(pending, handle, id) ==
    SetTimeout(pending, id, QuietPeriod)

\* Lines 317-324: the pending timers after checkForTikzError
PendingAfterFeed(pending, handle, id) ==
    SetTimeout(
        IF handle # NullTimer THEN ClearTimeout(pending, handle) ELSE pending,
        id, QuietPeriod)

\* Lines 327-435: showBufferedLogs as a whole, on the buffer, the target and
\* the displays of the document; gives the buffer and the displays after it.
ShowBufferedLogs(buffer, element, displays) ==
    IF Len(buffer) = 0 \/ element = "null"
    THEN [buffer |-> buffer, displays |-> displays]
    ELSE LET c == ClassifyBuffer(buffer)
         IN  IF Len(c.filteredMessages) = 0
             THEN [buffer |-> buffer, displays |-> displays]
             ELSE [buffer |-> <<>>,
                   displays |-> [displays EXCEPT ![element] = Append(@, ErrorDisplay(c))]]

RECURSIVE SearchFrom(_, _, _)
\* Lines 156-189: the while loop from directory dir on, count iterations
\* done.
SearchFrom(v, dir, count) ==
    IF ~(count < SafetyLimit) THEN <<>>
    ELSE LET r == TryFilenames(v, dir, 1)
         IN  IF r.found THEN r.content
             ELSE IF dir = <<>> THEN <<>>
             ELSE SearchFrom(v, ParentOf(dir), count + 1)

\* Lines 142-190: the string findPreambleFile resolves to.
FindPreambleFile(v, path) ==
    IF path = <<>> THEN <<>> ELSE SearchFrom(v, ParentOf(path), 0)

\* The vault of the plugin: one preamble file, in directory a.
HostVault == EntriesAt(1, <<"null", "null", "TFile">>)

\* ctx.sourcePath of the blocks: block A is in a note two directories deep,
\* block B in a note of the root.
BlockPath(b) == IF b = "A" THEN DocumentIn(2) ELSE DocumentIn(0)

\* The source of the blocks.
BlockSource(b) ==
    IF b = "A"
    THEN <<" ", "x">> \o Nbsp \o <<NL>> \o BeginDocument \o <<NL, NL, "z", " ">>
    ELSE <<"x", " ", NL, "z">>

\* The source is tidied without the preamble.
SourceComplete_NoPreamble(b) == TidyTikzSource(BlockSource(b), <<>>)

\* Lines 119-120: the text the callback of block b computes.
SourceComplete(b) ==
    TidyTikzSource(BlockSource(b), FindPreambleFile(HostVault, BlockPath(b)))

\* Lines 9-15 and the host before onload: a new plugin object, the native
\* console, the main window open, no block processed yet.
Init ==
    /\ PluginFieldsInit
    /\ pluginPhase = "constructed"
    /\ consoleLog = "native"
    /\ consoleError = "native"
    /\ originalConsoleLog = "undefined"
    /\ originalConsoleError = "undefined"
    /\ layoutReady = FALSE
    /\ openWindows = {"main"}
    /\ tikzjaxScripts = {}
    /\ tikzModes = 0
    /\ timeouts = {}
    /\ nextTimer = 1
    /\ blockPc = [b \in Blocks |-> "idle"]
    /\ blockScript = [b \in Blocks |-> <<>>]
    /\ renders = 0
    /\ burstLive = FALSE
    /\ burstFeeds = 0
    /\ burstSpan = 0
    /\ sinceFeed = 0
    /\ burstFlushes = 0
    /\ burstFlushGap = 0
    /\ burstMissedGap = 0
    /\ bufferTags = <<>>
    /\ TidyIdle /\ ClsIdle /\ ResIdle

\* Lines 17-35: onload. The layout-ready callback is registered, not run.
Onload ==
    /\ pluginPhase = "constructed"
    /\ pluginPhase' = "loaded"
    \* startConsoleInterception, lines 275-299
    /\ originalConsoleLog' = consoleLog
    /\ originalConsoleError' = consoleError
    /\ consoleLog' = "intercepted"
    /\ consoleError' = "intercepted"
    \* addSyntaxHighlighting, lines 131-134
    /\ tikzModes' = tikzModes + 1
    /\ UNCHANGED <<layoutReady, openWindows, tikzjaxScripts, timeouts, nextTimer, blockPc, blockScript, renders, pluginVars, burstVars,
                   tidyVars, clsVars, resVars>>

\* Lines 25-30: the layout-ready callback; loadTikZJax for every window.
OnLayoutReady ==
    /\ pluginPhase = "loaded"
    /\ ~layoutReady
    /\ layoutReady' = TRUE
    /\ tikzjaxScripts' = tikzjaxScripts \cup openWindows
    /\ UNCHANGED <<pluginPhase, consoleLog, consoleError, originalConsoleLog,
                   originalConsoleError, openWindows, tikzModes, timeouts, nextTimer,
                   blockPc, blockScript, renders, pluginVars, burstVars,
                   tidyVars, clsVars, resVars>>

\* The user opens the pop-out window; lines 27-29: once the layout-ready
\* callback has registered the window-open handler, loadTikZJax runs for it.
WindowOpen ==
    /\ pluginPhase = "loaded"
    /\ "popout" \notin openWindows
    /\ openWindows' = openWindows \cup {"popout"}
    /\ tikzjaxScripts' = IF layoutReady THEN tikzjaxScripts \cup {"popout"}
                         ELSE tikzjaxScripts
    /\ UNCHANGED <<pluginPhase, consoleLog, consoleError, originalConsoleLog,
                   originalConsoleError, layoutReady, tikzModes, timeouts, nextTimer,
                   blockPc, blockScript, renders, pluginVars, burstVars,
                   tidyVars, clsVars, resVars>>

\* Lines 63-68 and 76-80: unloadTikZJax window by window, the main window
\* first; doc.getElementById("tikzjax") is null in a window without the
\* script and s.remove() then throws. Gives the scripts left and whether
\* the loop threw.
UnloadTikZJaxAllWindows(scripts, open) ==
    IF "main" \notin scripts
    THEN [scripts |-> scripts, threw |-> TRUE]
    ELSE IF "popout" \in open /\ "popout" \notin scripts
    THEN [scripts |-> scripts \ {"main"}, threw |-> TRUE]
    ELSE [scripts |-> scripts \ open, threw |-> FALSE]

\* Lines 37-41: onunload. An exception of unloadTikZJaxAllWindows ends it
\* before removeSyntaxHighlighting and stopConsoleInterception.
Onunload ==
    /\ pluginPhase = "loaded"
    /\ pluginPhase' = "unloaded"
    /\ LET u == UnloadTikZJaxAllWindows(tikzjaxScripts, openWindows)
       IN  /\ tikzjaxScripts' = u.scripts
           /\ IF u.threw
              THEN UNCHANGED <<tikzModes, consoleLog, consoleError>>
              ELSE /\ tikzModes' = 0
                   /\ consoleLog' = IF originalConsoleLog # "undefined"
                                    THEN originalConsoleLog ELSE consoleLog
                   /\ consoleError' = IF originalConsoleError # "undefined"
                                      THEN originalConsoleError ELSE consoleError
    /\ UNCHANGED <<originalConsoleLog, originalConsoleError, layoutReady, openWindows,
                   timeouts, nextTimer, blockPc, blockScript, renders,
                   pluginVars, burstVars, tidyVars, clsVars, resVars>>

\* The callback starts without clearLogBuffer.
RenderStart_NoClear(b) ==
    /\ pluginPhase = "loaded"
    /\ blockPc[b] # "awaiting"
    /\ renders < MaxRenders
    /\ renders' = renders + 1
    /\ currentTikzElement' = b
    /\ errorDisplays' = [errorDisplays EXCEPT ![b] = IF @ # <<>> THEN Tail(@) ELSE @]
    /\ blockPc' = [blockPc EXCEPT ![b] = "awaiting"]
    /\ burstLive' = FALSE
    /\ burstFeeds' = 0
    /\ burstSpan' = 0
    /\ sinceFeed' = 0
    /\ burstFlushes' = 0
    /\ burstFlushGap' = 0
    /\ burstMissedGap' = 0
    /\ UNCHANGED <<tikzLogBuffer, tikzLogTimer, timeouts, bufferTags>>
    /\ UNCHANGED <<pluginPhase, consoleLog, consoleError, originalConsoleLog,
                   originalConsoleError, layoutReady, openWindows, tikzjaxScripts,
                   tikzModes, nextTimer, blockScript,
                   tidyVars, clsVars, resVars>>

\* Lines 104-119: the code block processor is called for block b and runs
\* to its await: clearLogBuffer (437-444), the target is set, the first
\* error display of the element is removed, findPreambleFile is started.
RenderStart(b) ==
    /\ pluginPhase = "loaded"
    /\ blockPc[b] # "awaiting"
    /\ renders < MaxRenders
    /\ renders' = renders + 1
    /\ tikzLogBuffer' = <<>>
    /\ timeouts' = IF tikzLogTimer # NullTimer
                   THEN ClearTimeout(timeouts, tikzLogTimer) ELSE timeouts
    /\ tikzLogTimer' = NullTimer
    /\ currentTikzElement' = b
    /\ errorDisplays' = [errorDisplays EXCEPT ![b] = IF @ # <<>> THEN Tail(@) ELSE @]
    /\ blockPc' = [blockPc EXCEPT ![b] = "awaiting"]
    /\ burstLive' = FALSE
    /\ burstFeeds' = 0
    /\ burstSpan' = 0
    /\ sinceFeed' = 0
    /\ burstFlushes' = 0
    /\ burstFlushGap' = 0
    /\ burstMissedGap' = 0
    /\ bufferTags' = <<>>
    /\ UNCHANGED <<pluginPhase, consoleLog, consoleError, originalConsoleLog,
                   originalConsoleError, layoutReady, openWindows, tikzjaxScripts,
                   tikzModes, nextTimer, blockScript,
                   tidyVars, clsVars, resVars>>

\* Lines 119-126: findPreambleFile has resolved; the merged source is
\* computed and the script element with it is created in the element.
RenderFinish(b) ==
    /\ blockPc[b] = "awaiting"
    /\ blockPc' = [blockPc EXCEPT ![b] = "rendered"]
    /\ blockScript' = [blockScript EXCEPT ![b] = Append(@, SourceComplete(b))]
    /\ UNCHANGED <<pluginPhase, consoleLog, consoleError, originalConsoleLog,
                   originalConsoleError, layoutReady, openWindows, tikzjaxScripts,
                   tikzModes, timeouts, nextTimer, renders, pluginVars,
                   burstVars, tidyVars, clsVars, resVars>>

\* Lines 311-325: checkForTikzError(message), the message written by
\* writer. The burst variables record the calls: a call less than a quiet
\* period after the one before it, with no render start in between, goes on
\* with the burst, any other call starts a burst and ends the burst before
\* it.
CheckForTikzError(writer, message) ==
    /\ nextTimer <= MaxFeeds
    /\ tikzLogBuffer' = Append(tikzLogBuffer, message)
    /\ bufferTags' = Append(bufferTags, [for |-> writer, epoch |-> renders])
    /\ timeouts' = PendingAfterFeed(timeouts, tikzLogTimer, nextTimer)
    /\ tikzLogTimer' = nextTimer
    /\ nextTimer' = nextTimer + 1
    /\ LET live == currentTikzElement # "null"
           goesOn == burstLive /\ sinceFeed < QuietPeriod
       IN  /\ burstLive' = live
           /\ burstFeeds' = IF ~live THEN 0 ELSE IF goesOn THEN burstFeeds + 1 ELSE 1
           /\ burstSpan' = IF live /\ goesOn THEN Min(burstSpan + sinceFeed, TimeCap) ELSE 0
           /\ burstFlushes' = IF live /\ goesOn THEN burstFlushes ELSE 0
           /\ burstFlushGap' = IF live /\ goesOn THEN burstFlushGap ELSE 0
           /\ burstMissedGap' = IF burstLive /\ ~goesOn /\ burstFlushes = 0
                                THEN sinceFeed ELSE 0
           /\ sinceFeed' = 0
    /\ UNCHANGED <<currentTikzElement, errorDisplays>>
    /\ UNCHANGED <<pluginPhase, consoleLog, consoleError, originalConsoleLog,
                   originalConsoleError, layoutReady, openWindows, tikzjaxScripts,
                   tikzModes, blockPc, blockScript, renders,
                   tidyVars, clsVars, resVars>>

\* What can write to the console: the renderer at work on the script of a
\* block, once it has been loaded and the block has a script, and the rest
\* of the application.
Writers == { b \in Blocks : layoutReady /\ blockScript[b] # <<>> } \cup {"app"}

\* The lines a writer writes.
LinesOfWriter(writer) == IF writer = "app" THEN {FeedEcho} ELSE FeedLines

\* Lines 281-288: something calls console.log while it is intercepted.
ConsoleLog ==
    /\ consoleLog = "intercepted"
    /\ \E writer \in Writers : \E message \in LinesOfWriter(writer) :
          CheckForTikzError(writer, message)

\* Lines 291-298: something calls console.error while it is intercepted.
ConsoleError ==
    /\ consoleError = "intercepted"
    /\ \E writer \in Writers : \E message \in LinesOfWriter(writer) :
          CheckForTikzError(writer, message)

\* Lines 322-324: a timer that is due runs showBufferedLogs.
TimerFires ==
    \E t \in timeouts :
        /\ t.remaining = 0
        /\ timeouts' = timeouts \ {t}
        /\ LET r == ShowBufferedLogs(tikzLogBuffer, currentTikzElement, errorDisplays)
           IN  /\ tikzLogBuffer' = r.buffer
               /\ errorDisplays' = r.displays
               /\ bufferTags' = IF r.buffer = <<>> THEN <<>> ELSE bufferTags
        /\ burstFlushes' = IF burstLive THEN burstFlushes + 1 ELSE 0
        /\ burstFlushGap' = IF burstLive THEN sinceFeed ELSE 0
        /\ UNCHANGED <<burstLive, burstFeeds, burstSpan, sinceFeed, burstMissedGap>>
        /\ UNCHANGED <<tikzLogTimer, currentTikzElement>>
        /\ UNCHANGED <<pluginPhase, consoleLog, consoleError, originalConsoleLog,
                       originalConsoleError, layoutReady, openWindows, tikzjaxScripts,
                       tikzModes, nextTimer, blockPc, blockScript, renders,
                       tidyVars, clsVars, resVars>>

\* Time passes: by TickMs, or by less up to the moment the next timer is
\* due. A timer that is due fires before time passes.
Tick ==
    /\ pluginPhase # "constructed"
    /\ \A t \in timeouts : t.remaining > 0
    /\ LET lefts == { t.remaining : t \in timeouts }
           step == IF \E d \in lefts : d < TickMs
                   THEN CHOOSE d \in lefts : \A e \in lefts : d <= e
                   ELSE TickMs
       IN  /\ timeouts' = { [t EXCEPT !.remaining = @ - step] : t \in timeouts }
           /\ sinceFeed' = IF burstLive THEN Min(sinceFeed + step, TimeCap) ELSE 0
    /\ UNCHANGED <<burstLive, burstFeeds, burstSpan, burstFlushes, burstFlushGap,
                   burstMissedGap, bufferTags>>
    /\ UNCHANGED <<pluginPhase, consoleLog, consoleError, originalConsoleLog,
                   originalConsoleError, layoutReady, openWindows, tikzjaxScripts,
                   tikzModes, nextTimer, blockPc, blockScript, renders,
                   pluginVars, tidyVars, clsVars, resVars>>

Next ==
    \/ Onload
    \/ OnLayoutReady
    \/ WindowOpen
    \/ Onunload
    \/ \E b \in Blocks : RenderStart(b)
    \/ \E b \in Blocks : RenderFinish(b)
    \/ ConsoleLog
    \/ ConsoleError
    \/ TimerFires
    \/ Tick

\* The host and the burst record of a plugin that is not running.
HostIdle ==
    /\ pluginPhase = "constructed"
    /\ consoleLog = "native"
    /\ consoleError = "native"
    /\ originalConsoleLog = "undefined"
    /\ originalConsoleError = "undefined"
    /\ layoutReady = FALSE
    /\ openWindows = {"main"}
    /\ tikzjaxScripts = {}
    /\ tikzModes = 0
    /\ timeouts = {}
    /\ nextTimer = 1
    /\ blockPc = [b \in Blocks |-> "idle"]
    /\ blockScript = [b \in Blocks |-> <<>>]
    /\ renders = 0
    /\ burstLive = FALSE
    /\ burstFeeds = 0
    /\ burstSpan = 0
    /\ sinceFeed = 0
    /\ burstFlushes = 0
    /\ burstFlushGap = 0
    /\ burstMissedGap = 0
    /\ bufferTags = <<>>

(***************************************************************************)
(* Specifications.                                                         *)
(***************************************************************************)
TidySpecInit == TidyInit /\ PluginFieldsInit /\ ClsIdle /\ ResIdle /\ HostIdle

Spec == Init /\ [][Next]_vars

SpecTidy == TidySpecInit /\ [][TidyNext]_vars

ClassifierInit == ClsInit /\ TidyIdle /\ ResIdle /\ HostIdle

SpecClassifier == ClassifierInit /\ [][ClsNext]_vars

ResolverInit == ResInit /\ TidyIdle /\ PluginFieldsInit /\ ClsIdle /\ HostIdle

SpecResolver == ResolverInit /\ [][ResNext]_vars

\* The continuation of an await runs once its promise has settled: a call
\* that can take a step takes it.
SpecResolverLive == ResolverInit /\ [][ResNext]_vars /\ WF_vars(ResNext)
(***************************************************************************)
(* Properties of tidyTikzSource (checked under SpecTidy).                  *)
(***************************************************************************)
\* The lines of a tidied text (a tidied text has no empty line).
LinesOf(text) == IF text = <<>> THEN <<>> ELSE Split(text)

HasMarker(line) == Includes(line, BeginDocument)

OnlyWhiteSpace(text) == \A i \in 1..Len(text) : IsWhiteSpace(text[i])

\* C6: normalizer idempotence. For every input text, tidyTikzSource with no
\* preamble applied to its own result returns that result again:
\* normalize(normalize(x)) = normalize(x).
C6_NormalizerIdempotent ==
    (tidyPc = "renormalized" /\ preamble = <<>>) => renormalized = sourceComplete

\* C9: merge placement. With a preamble that has a non-whitespace character:
\* when a line of the normalized source has \begin{document}, the result is
\* the source lines before the first such line, then the non-empty trimmed
\* preamble lines in their own order, then that line and the rest of the
\* source lines; when no source line has it, the preamble lines come first
\* and all source lines follow.
C9_MergePlacement ==
    (tidyPc # "start" /\ ~OnlyWhiteSpace(preamble)) =>
        LET L == NormalizedLines(tikzSource)
            P == PreambleLines(preamble)
            O == LinesOf(sourceComplete)
            n == Len(P)
        IN  /\ Len(O) = Len(L) + n
            /\ \A i \in 1..n : P[i] # <<>> /\ P[i] = Trim(P[i])
            /\ IF \E k \in 1..Len(L) : HasMarker(L[k])
               THEN \E k \in 1..Len(L) :
                       /\ HasMarker(L[k])
                       /\ \A j \in 1..(k - 1) : ~HasMarker(L[j]) /\ O[j] = L[j]
                       /\ \A i \in 1..n : O[k - 1 + i] = P[i]
                       /\ \A j \in k..Len(L) : O[j + n] = L[j]
               ELSE /\ \A i \in 1..n : O[i] = P[i]
                    /\ \A j \in 1..Len(L) : O[j + n] = L[j]

\* A merge with two preamble lines into a source that has a line before and
\* a line after its \begin{document} line.
C9_Witness ==
    /\ tidyPc = "tidied"
    /\ Len(PreambleLines(preamble)) = 2
    /\ LET L == NormalizedLines(tikzSource)
       IN  /\ Len(L) = 3
           /\ ~HasMarker(L[1]) /\ HasMarker(L[2]) /\ ~HasMarker(L[3])
    /\ Len(LinesOf(sourceComplete)) = 5

\* C10: merge no-op. With a preamble that is empty or has only whitespace,
\* tidyTikzSource returns exactly the normalized source, the result it gives
\* with no preamble at all.
C10_MergeNoOp ==
    (tidyPc # "start" /\ OnlyWhiteSpace(preamble)) =>
        /\ sourceComplete = TidyTikzSource(tikzSource, <<>>)
        /\ sourceComplete = Join(NormalizedLines(tikzSource))

\* A whitespace-only, non-empty preamble merged into a source with two lines.
C10_Witness ==
    /\ tidyPc = "tidied"
    /\ preamble # <<>> /\ OnlyWhiteSpace(preamble)
    /\ Len(LinesOf(sourceComplete)) = 2

(***************************************************************************)
(* Properties of showBufferedLogs (checked under SpecClassifier).          *)
(***************************************************************************)
TraceState(i) == clsTrace[i][1]
TracePhase(i) == clsTrace[i][2]

\* The moves of the classifier state the data model allows.
AllowedMove(s, t) ==
    \/ s = "preamble_normal" /\ t \in {"preamble_normal", "document_normal", "preamble_error"}
    \/ s = "document_normal" /\ t \in {"document_normal", "document_error"}
    \/ s = "preamble_error" /\ t = "preamble_error"
    \/ s = "document_error" /\ t = "document_error"

\* C2: classifier monotonicity. While showBufferedLogs processes a buffer,
\* the state starts as preamble_normal and every line moves it only along
\* the allowed moves; it never goes from an error state to a normal state.
C2_ClassifierMonotonic ==
    /\ clsTrace # <<>> => TraceState(1) = "preamble_normal"
    /\ \A i \in 1..(Len(clsTrace) - 1) :
          /\ AllowedMove(TraceState(i), TraceState(i + 1))
          /\ TraceState(i) \in ErrorStates => TraceState(i + 1) \in ErrorStates

\* A run through preamble_normal, document_normal and document_error in
\* which a document-entry marker arrives in the error state.
C2_Witness ==
    /\ clsPc = "returned"
    /\ Len(clsInput) = 3
    /\ clsInput[3] \in MarkerLines
    /\ Len(clsTrace) = 4
    /\ TraceState(2) = "document_normal"
    /\ TraceState(3) = "document_error"
    /\ TraceState(4) = "document_error"

\* C3: classifier phase-lock. Within one run errorPhase is assigned at most
\* once, on the line that moves the state from a normal state to an error
\* state; once it is 'preamble' or 'document' no later line changes it.
C3_PhaseLock ==
    /\ clsTrace # <<>> => TracePhase(1) = "null"
    /\ \A i \in 1..(Len(clsTrace) - 1) :
          /\ TracePhase(i) # "null" => TracePhase(i + 1) = TracePhase(i)
          /\ TracePhase(i + 1) # TracePhase(i) =>
                TraceState(i) \in NormalStates /\ TraceState(i + 1) \in ErrorStates
          /\ (TraceState(i) \in NormalStates /\ TraceState(i + 1) \in ErrorStates) =>
                TracePhase(i + 1) # TracePhase(i)

\* A preamble error followed by a document-entry marker and then by a line
\* that is no marker: the phase is still 'preamble' at the end.
C3_Witness ==
    /\ clsPc = "returned"
    /\ clsInput = <<LineUndefined, LineNoAux, LineContext>>
    /\ errorPhase = "preamble"
    /\ Len(errorDisplays["A"]) = 1

AllBenign(buffer) == \A i \in 1..Len(buffer) : buffer[i] \in BenignLines

\* C4: classifier silence. A run on a buffer of file-load echoes, version
\* banners, blank and dot-fill lines only creates no error display.
C4_ClassifierSilence ==
    (clsPc = "returned" /\ AllBenign(clsInput)) => errorDisplays = NoDisplays

\* A finished run, with a target, on three benign lines of three kinds.
C4_Witness ==
    /\ clsPc = "returned"
    /\ currentTikzElement = "A"
    /\ clsInput = <<LineBanner, LineStyle, LineDots>>
    /\ clsIndex = 3

\* The lines at which the state moved into an error state.
ErrorEntries ==
    { i \in 1..(Len(clsTrace) - 1) :
        TraceState(i) \in NormalStates /\ TraceState(i + 1) \in ErrorStates }

\* C5: the retained body is a verbatim suffix. After a run with a target,
\* the display's text is the buffer's lines from the first line that moved
\* the state into an error state to the last line, unmodified and joined by
\* newlines; with no such line there is no display.
C5_RetainedSuffix ==
    (clsPc = "returned" /\ currentTikzElement # "null") =>
        IF ErrorEntries = {}
        THEN errorDisplays = NoDisplays
        ELSE LET k == CHOOSE i \in ErrorEntries : \A j \in ErrorEntries : i <= j
             IN  /\ Len(errorDisplays[currentTikzElement]) = 1
                 /\ errorDisplays[currentTikzElement][1].text =
                        Join(SubSeq(clsInput, k, Len(clsInput)))

\* A display whose body starts at the second line, an error line with
\* blanks around it, and keeps the dot-fill line after it.
C5_Witness ==
    /\ clsPc = "returned"
    /\ clsInput = <<LineStyle, LineMissing, LineDots>>
    /\ Len(errorDisplays["A"]) = 1
    /\ errorDisplays["A"][1].text = LineMissing \o <<NL>> \o LineDots

\* A document-entry marker was reached in preamble_normal before line f.
MarkerReachedBefore(f) ==
    \E k \in 1..(f - 1) :
        /\ IsNormalDocument(Trim(clsInput[k]))
        /\ TraceState(k) = "preamble_normal"

\* C19: the report phase is never 'none'. When a run of showBufferedLogs
\* has created an error display, errorPhase is 'preamble' or 'document' and
\* the title is not the fallback 'TikZJax Log'; errorPhase is 'document'
\* exactly when a document-entry marker was reached in preamble_normal
\* before the first retained line, and 'preamble' otherwise.
C19_ReportPhaseNeverNone ==
    (clsPc = "returned" /\ errorDisplays # NoDisplays) =>
        LET display == errorDisplays[currentTikzElement][1]
        IN  /\ errorPhase \in {"preamble", "document"}
            /\ display.title # TitleLog
            /\ \A f \in ErrorEntries :
                  IF MarkerReachedBefore(f)
                  THEN errorPhase = "document" /\ display.title = TitleDocument
                  ELSE errorPhase = "preamble" /\ display.title = TitlePreamble
            /\ ErrorEntries # {}

\* A file-load echo, a document-entry marker and an error line: the display
\* has the document title.
C19_Witness ==
    /\ clsPc = "returned"
    /\ clsInput = <<LineStyle, LineAbd, LineUndefined>>
    /\ errorPhase = "document"
    /\ Len(errorDisplays["A"]) = 1
    /\ errorDisplays["A"][1].title = TitleDocument

\* C15: an empty flush clears the buffer. When a run of showBufferedLogs
\* has gone through a buffer and retained no line, no error display has
\* been created and tikzLogBuffer is empty.
C15_EmptyFlushClearsBuffer ==
    (clsPc = "returned" /\ clsTrace # <<>> /\ filteredMessages = <<>>) =>
        /\ errorDisplays = NoDisplays
        /\ tikzLogBuffer = <<>>

(***************************************************************************)
(* Properties of findPreambleFile (checked under SpecResolver).            *)
(***************************************************************************)
\* The level of the document's directory: the slashes of the source path.
DocLevel == Cardinality({ i \in 1..Len(sourcePath) : sourcePath[i] = Slash })

CandidateAt(l, i) == PreamblePath(DirAt(l), preambleFilenames[i])

\* The i-th candidate of the directory at level l is a file that can be read.
IsMatch(l, i) == \E e \in vault : e.path = CandidateAt(l, i) /\ e.kind = "TFile"

HasMatch(l) == \E i \in 1..3 : IsMatch(l, i)

FirstMatch(l) == CHOOSE i \in 1..3 : IsMatch(l, i) /\ \A j \in 1..(i - 1) : ~IsMatch(l, j)

\* The directories the search can reach: the document's and the nine above.
InReach(l) == l <= DocLevel /\ DocLevel - l < SafetyLimit

RECURSIVE ChainFrom(_)
\* The candidates of the directory at level l, then those of its parent,
\* and so on to the root.
ChainFrom(l) ==
    <<CandidateAt(l, 1), CandidateAt(l, 2), CandidateAt(l, 3)>>
        \o (IF l = 0 THEN <<>> ELSE ChainFrom(l - 1))

IsPrefix(s, t) == Len(s) <= Len(t) /\ SubSeq(t, 1, Len(s)) = s

\* C7: resolver priority. The content returned is never that of a candidate
\* when a candidate earlier in the order '.tikz-preamble.tex',
\* '.tikz-preamble', 'tikz-preamble.tex' is a readable file of the same
\* directory, and never that of a directory when a directory nearer to the
\* document holds a readable candidate; when the nearest directory in reach
\* that holds readable candidates holds several, the content of the first
\* of them is returned.
C7_ResolverPriority ==
    (resPc = "returned" /\ sourcePath # <<>>) =>
        /\ \A l \in 0..DocLevel : \A i \in 1..3 :
              (IsMatch(l, i) /\ resContent = CachedRead(CandidateAt(l, i))) =>
                  /\ \A j \in 1..(i - 1) : ~IsMatch(l, j)
                  /\ \A m \in (l + 1)..DocLevel : ~HasMatch(m)
        /\ \A l \in 0..DocLevel :
              (InReach(l) /\ HasMatch(l) /\ \A m \in (l + 1)..DocLevel : ~HasMatch(m)) =>
                  resContent = CachedRead(CandidateAt(l, FirstMatch(l)))

\* The document's directory holds the second and the third candidate, an
\* ancestor holds the first: the second candidate of the document's
\* directory is returned.
C7_Witness ==
    /\ resPc = "returned"
    /\ DocLevel >= 1
    /\ ~IsMatch(DocLevel, 1) /\ IsMatch(DocLevel, 2) /\ IsMatch(DocLevel, 3)
    /\ \E l \in 0..(DocLevel - 1) : IsMatch(l, 1)
    /\ resContent = CachedRead(CandidateAt(DocLevel, 2))

\* The nearest ancestor directory that holds a readable candidate.
NearestMatchAbove ==
    CHOOSE l \in 0..(DocLevel - 1) :
        HasMatch(l) /\ \A m \in (l + 1)..(DocLevel - 1) : ~HasMatch(m)

\* The paths looked up are the candidates of the document's directory, then
\* those of its parent, and so on root-ward, three to a directory.
QueriedRootward == IsPrefix(queried, ChainFrom(DocLevel))

\* C8 as stated: resolver ascent. When no candidate exists in the
\* document's directory but one exists in an ancestor, the content of the
\* nearest such ancestor's candidate is returned, and the paths queried
\* follow the root-ward chain with no directory skipped or visited twice.
C8_ResolverAscent_Stated ==
    /\ sourcePath # <<>> => QueriedRootward
    /\ (/\ resPc = "returned" /\ sourcePath # <<>>
        /\ ~HasMatch(DocLevel)
        /\ \E l \in 0..(DocLevel - 1) : HasMatch(l)) =>
            resContent = CachedRead(CandidateAt(NearestMatchAbove, FirstMatch(NearestMatchAbove)))

\* C8 amended: resolver ascent. When no candidate exists in the document's
\* directory but one exists in an ancestor at most nine levels above it, the
\* content of the nearest such ancestor's candidate is returned; the paths
\* queried are the candidates of the document's directory, then of its
\* parent, and so on root-ward, all three of a directory before its parent,
\* no directory skipped or visited twice, ending at the candidate returned.
C8_ResolverAscent ==
    /\ sourcePath # <<>> => QueriedRootward
    /\ (/\ resPc = "returned" /\ sourcePath # <<>>
        /\ ~HasMatch(DocLevel)
        /\ \E l \in 0..(DocLevel - 1) : HasMatch(l)
        /\ InReach(NearestMatchAbove)) =>
            LET l == NearestMatchAbove
                i == FirstMatch(l)
            IN  /\ resContent = CachedRead(CandidateAt(l, i))
                /\ Len(queried) = 3 * (DocLevel - l) + i
                /\ queried[Len(queried)] = CandidateAt(l, i)

\* No candidate in the document's directory nor in its parent, one in the
\* directory two levels up: it is returned after seven lookups.
C8_Witness ==
    /\ resPc = "returned"
    /\ DocLevel >= 2
    /\ ~HasMatch(DocLevel) /\ ~HasMatch(DocLevel - 1)
    /\ IsMatch(DocLevel - 2, 1)
    /\ resContent = CachedRead(CandidateAt(DocLevel - 2, 1))
    /\ Len(queried) = 7

\* The lookup or the read of the candidate throws.
IsFailing(path) ==
    \E e \in vault : e.path = path /\ e.kind \in {"Unreadable", "Throws"}

IsReadable(path) == \E e \in vault : e.path = path /\ e.kind = "TFile"

\* The candidates the search can look up: those of the document's directory
\* and of the directories above it, as far as the safety limit lets it go.
ReachChain ==
    SubSeq(ChainFrom(DocLevel), 1, 3 * Min(DocLevel + 1, SafetyLimit))

\* The first readable candidate of a chain, 0 when there is none.
FirstReadable(chain) ==
    LET readable == { m \in 1..Len(chain) : IsReadable(chain[m]) }
    IN  IF readable = {} THEN 0
        ELSE CHOOSE m \in readable : \A n \in readable : m <= n

\* C11: the resolver never fails. The promise of findPreambleFile is never
\* rejected; the string returned is empty when the path is empty or no
\* candidate in reach can be read; a candidate whose lookup or read throws
\* is passed over alone: the search goes on to the next candidate and the
\* parent directories, and returns the first candidate after it that can
\* be read, or the empty string after the last candidate in reach.
C11_ResolverNeverFails ==
    /\ resPc # "rejected"
    /\ (resPc = "returned" /\ sourcePath = <<>>) => resContent = <<>>
    /\ (resPc = "returned" /\ sourcePath # <<>>) =>
          LET chain == ReachChain
              first == FirstReadable(chain)
          IN  /\ first = 0 => resContent = <<>>
              /\ \A k \in 1..Len(queried) :
                    IsFailing(queried[k]) =>
                        IF first # 0
                        THEN /\ k < first
                             /\ Len(queried) = first
                             /\ resContent = CachedRead(chain[first])
                        ELSE /\ queried = chain
                             /\ resContent = <<>>

\* The first candidate of the document's directory cannot be read and the
\* second throws in a directory above: the third candidate of that
\* directory is returned.
C11_Witness ==
    /\ resPc = "returned"
    /\ DocLevel >= 1
    /\ IsFailing(CandidateAt(DocLevel, 1))
    /\ ~HasMatch(DocLevel)
    /\ \E l \in 0..(DocLevel - 1) :
          /\ IsFailing(CandidateAt(l, 2))
          /\ resContent = CachedRead(CandidateAt(l, 3))

\* A candidate of the root directory has been looked up.
RootChecked ==
    \E k \in 1..Len(queried) : \E i \in 1..3 : queried[k] = CandidateAt(0, i)

\* The bounds of one call: at most 10 directories and 30 lookups; the loop
\* is left in the iteration that checks the root; a call for a document
\* fewer than 10 levels deep with no candidate anywhere has looked up every
\* candidate down to the root's when it returns the empty string.
ResolverBound ==
    /\ searchCount <= SafetyLimit
    /\ Len(queried) <= 3 * SafetyLimit
    /\ RootChecked => resPc = "returned"
    /\ (/\ resPc = "returned" /\ sourcePath # <<>>
        /\ DocLevel < SafetyLimit
        /\ \A l \in 0..DocLevel : ~HasMatch(l)) =>
            /\ resContent = <<>>
            /\ queried = ChainFrom(DocLevel)
            /\ RootChecked

\* C17: resolver termination and bound. Every call of findPreambleFile
\* returns, having inspected at most 10 directories (30 candidate lookups);
\* it stops right after the root directory has been checked, and, the
\* document being fewer than 10 levels deep with no candidate anywhere, it
\* has checked the root before it returns the empty string.
C17_ResolverTermination ==
    /\ []ResolverBound
    /\ <>(resPc = "returned")

\* A document nine directories deep, no candidate anywhere: the call
\* returns the empty string after 10 directories and 30 lookups, the last
\* of them in the root.
C17_Witness ==
    /\ resPc = "returned"
    /\ DocLevel = SafetyLimit - 1
    /\ vault = {}
    /\ searchCount = SafetyLimit
    /\ Len(queried) = 3 * SafetyLimit
    /\ queried[Len(queried)] = CandidateAt(0, 3)
    /\ resContent = <<>>

(***************************************************************************)
(* Properties of the debounce (checked under Spec).                        *)
(***************************************************************************)
\* The flushes of the burst in progress: showBufferedLogs has run at most
\* once since the burst began, not less than a quiet period after the last
\* call, and it has run once more than a quiet period has passed since the
\* last call.
FlushesOfBurst ==
    burstLive =>
        /\ burstFlushes <= 1
        /\ burstFlushes >= 1 => burstFlushGap >= QuietPeriod
        /\ sinceFeed > QuietPeriod => burstFlushes = 1

\* C1 as stated: debounce coalescing. For every burst of checkForTikzError
\* calls, each less than a quiet period after the one before it, with a
\* render target set and no render start in between, exactly one
\* showBufferedLogs runs, and not before a quiet period has passed since
\* the last call of the burst: no burst ends without its flush.
C1_DebounceCoalescing_Stated ==
    /\ FlushesOfBurst
    /\ burstMissedGap = 0

\* C1, amended: at most one showBufferedLogs runs for a burst, and not
\* before a quiet period has passed since its last call; one runs unless
\* the next call comes when the timer is due and its callback has not run
\* yet: that call clears the timer and the burst ends without a flush.
C1_DebounceCoalescing ==
    /\ FlushesOfBurst
    /\ burstMissedGap \in {0, QuietPeriod}

\* A burst of two calls at different times whose one flush has run a quiet
\* period after the second call.
C1_Witness ==
    /\ burstLive
    /\ burstFeeds = 2
    /\ burstSpan > 0
    /\ burstFlushes = 1
    /\ burstFlushGap = QuietPeriod
    /\ sinceFeed > QuietPeriod

(***************************************************************************)
(* Properties of the plugin in its host (checked under Spec).              *)
(***************************************************************************)
\* C12: sink restoration on teardown. Once onunload has run after onload,
\* in whatever state it was called, console.log and console.error are the
\* functions startConsoleInterception saved, the native ones.
C12_SinkRestoration ==
    pluginPhase = "unloaded" =>
        /\ consoleLog = originalConsoleLog
        /\ consoleError = originalConsoleError
        /\ consoleLog = "native"
        /\ consoleError = "native"

\* The tags of the lines a run of showBufferedLogs on the buffer retains:
\* those of the last lines of the buffer, as many as are retained.
RetainedTags ==
    LET n == Len(ClassifyBuffer(tikzLogBuffer).filteredMessages)
    IN  SubSeq(bufferTags, Len(bufferTags) - n + 1, Len(bufferTags))

\* This step adds an error display to block b.
DisplayAdded(b) == Len(errorDisplays'[b]) > Len(errorDisplays[b])

\* A step that starts a processor callback leaves the buffer empty and no
\* timer pending; a step that adds an error display adds it to the block
\* whose callback started last, and every line in it was fed after that
\* callback had started.
IsolationStep ==
    /\ renders' # renders =>
          /\ tikzLogBuffer' = <<>>
          /\ tikzLogTimer' = NullTimer
          /\ timeouts' = {}
    /\ \A b \in Blocks :
          DisplayAdded(b) =>
              /\ b = currentTikzElement
              /\ \A i \in 1..Len(RetainedTags) : RetainedTags[i].epoch = renders

\* C13: cross-block isolation on render start. Each start of a processor
\* callback empties the buffer and cancels the armed timer before a later
\* feed, so every line of an error display added to a block was fed after
\* the callback of that block had started, and no timer armed by a feed
\* before the start is pending after it.
C13_CrossBlockIsolation == [][IsolationStep]_vars

\* A line was fed, the callback of block B started as the second callback,
\* an error line was fed and flushed: the display of B holds that line
\* alone.
C13_Witness ==
    /\ renders = 2
    /\ nextTimer = 3
    /\ currentTikzElement = "B"
    /\ errorDisplays["A"] = <<>>
    /\ errorDisplays["B"] = <<[title |-> TitlePreamble, text |-> FeedError]>>
    /\ tikzLogBuffer = <<>>

\* C14: the report lands on the diagnosed block. Whatever the interleaving
\* of the callbacks of two blocks, an error display added to a block holds
\* no line the renderer wrote for the other block.
C14_ReportOnDiagnosedBlock ==
    [][\A b \in Blocks :
          DisplayAdded(b) =>
              \A i \in 1..Len(RetainedTags) :
                  RetainedTags[i].for \in Blocks => RetainedTags[i].for = b]_vars

\* C16: report replacement. After any sequence of render starts, feeds and
\* flushes a block carries at most one error display.
C16_ReportReplacement ==
    \A b \in Blocks : Len(errorDisplays[b]) <= 1

\* The text of the script of a block: the tidied source, with the lines of
\* the preamble found for block A before its \begin{document} line.
ExpectedScript(b) ==
    IF b = "A"
    THEN <<"x", NL>> \o CachedRead(CandidateAt(1, 3)) \o <<NL>>
            \o BeginDocument \o <<NL, "z">>
    ELSE <<"x", NL, "z">>

\* C18: pipeline ordering. A script node is added to the element of a block
\* only in the step that ends the callback, after findPreambleFile has
\* resolved, and between steps the text of every script node is the fully
\* merged source, never the unmerged or a partly merged one.
C18_PipelineOrdering ==
    /\ [](\A b \in Blocks :
            /\ blockPc[b] = "idle" => blockScript[b] = <<>>
            /\ \A i \in 1..Len(blockScript[b]) : blockScript[b][i] = ExpectedScript(b))
    /\ [][\A b \in Blocks :
            blockScript'[b] # blockScript[b] =>
                /\ blockPc[b] = "awaiting"
                /\ blockPc'[b] = "rendered"
                /\ Len(blockScript'[b]) = Len(blockScript[b]) + 1]_vars

\* Both blocks have their script, block A's with the preamble line.
C18_Witness ==
    /\ blockPc["A"] = "rendered"
    /\ blockPc["B"] = "rendered"
    /\ blockScript["A"] = <<ExpectedScript("A")>>
    /\ blockScript["B"] = <<ExpectedScript("B")>>
    /\ ExpectedScript("A") # TidyTikzSource(BlockSource("A"), <<>>)

\* C20: no report after teardown. Once onunload has run, no step adds an
\* error display to a block or a line to the buffer, and no run of
\* showBufferedLogs changes the buffer.
C20_NoReportAfterTeardown ==
    [][pluginPhase = "unloaded" =>
          /\ errorDisplays' = errorDisplays
          /\ tikzLogBuffer' = tikzLogBuffer]_vars

====
